---- MODULE Spec2Model ----
(***************************************************************************)
(* Model of the video compositor of sleeping_beauty_slop:                  *)
(*   src/video_assembly.py  VideoAssembler, create_video_from_components   *)
(*   src/video_api.py       VideoGenerationAPI                             *)
(*   src/main.py            pipeline entry point (word grouping, render)   *)
(*   src/test_video_assembly.py  load_timing_data + direct render call     *)
(*                                                                         *)
(* Times are exact rationals on a grid of 1/(2*fps) second ("ticks"); the  *)
(* Python floats of the source are modelled by exact arithmetic.           *)
(***************************************************************************)
EXTENDS Integers, Sequences, FiniteSets, TLC

\* ------------------------------------------------------------------ bounds
\* Render durations 1..MaxDuration ticks are enumerated, plus the 9 s scenario.
MaxDuration == 8
\* Length of one caption slot, in ticks, of the enumerated caption pool.
CaptionTicks == 4
\* Longest caption list handed to VideoGenerationAPI.create_video.
MaxCaptions == 2
\* Longest transcribed word list handed to the word grouping.
MaxWords == 9
\* Length in ticks of a transcribed word that is not zero-length.
WordTicks == 2
\* Pure-function applications: durations 1..MaxProbeDuration and times
\* 0..MaxProbeTime, in ticks; single captions of length 0..MaxProbeLen that
\* start at 0 or at ProbeStart.
MaxProbeDuration == 200
MaxProbeTime == 220
MaxProbeLen == 120
ProbeStart == 7
\* Caption texts handed to the font-size search: up to MaxTextWords words of
\* one length, the lengths being 1 character and the multiples of
\* WordLenStep up to MaxWordLenSteps * WordLenStep characters.
MaxTextWords == 18
WordLenStep == 12
MaxWordLenSteps == 6
\* Width in pixels of one character of the built-in default font, whose size
\* does not follow the requested font size.
DefaultGlyphAdvance == 6
\* Source images of 1..MaxImageSide pixels a side are handed to the image
\* preparer, besides a square, a portrait and a landscape picture.
MaxImageSide == 12
\* Concurrent renders: mkdtemp draws its directory name from
\* 1..MaxDirNames, and the renders last 1..MaxConcDuration ticks.
MaxDirNames == 3
MaxConcDuration == 4
\* Narration scripts of up to MaxSentences sentences are handed to
\* segment_script.
MaxSentences == 5
\* create_sample_timing_data is applied to up to MaxTexts texts and total
\* durations of 1..MaxSampleDuration ticks.
MaxTexts == 4
MaxSampleDuration == 12

MaxVideos == 6

\* _wrap_text is applied to texts of up to MaxWrapWords words of 1, 3 or
\* MaxWrapWordLen characters, at a font size of WrapFontSize and at maximum
\* widths that are multiples of WrapWidthStep pixels (one of them less 1).
MaxWrapWords == 4
MaxWrapWordLen == 8
WrapFontSize == 16
WrapWidthStep == 24

\* --------------------------------------------------------- program constants
width == 1080
height == 1920
fps == 30
words_per_segment == 4
AlphaMax == 255

\* One tick is 1/(2*fps) s, so that frame instants i/fps and the 0.5 s
\* transition are whole numbers of ticks.
TicksPerSecond == 2 * fps

\* self.transition_duration = 0.5 (seconds), in ticks
transition_duration == TicksPerSecond \div 2

\* The render partitions the duration in 3 windows (duration / 3); window
\* arithmetic is carried in thirds of a tick so that it stays exact.
BlendDen == 3 * transition_duration

Min(a, b) == IF a <= b THEN a ELSE b

Max(a, b) == IF a >= b THEN a ELSE b

\* ------------------------------------------------------------ pure functions

\* total_frames = int(duration * self.fps), duration in ticks
TotalFramesRounded(duration) ==
    ((2 * duration * fps) + TicksPerSecond) \div (2 * TicksPerSecond)

TotalFrames(duration) == (duration * fps) \div TicksPerSecond

\* current_time = frame_idx / self.fps, in ticks
CurrentTime(frame_idx) == (frame_idx * TicksPerSecond) \div fps

\* _get_current_images: n images, time t and total duration D in ticks
\* (segment_duration = D / 3).  Returns the index of the base image, the
\* index of the overlay image (-1 for None) and the blend factor as the
\* numerator of a fraction over BlendDen.
GetCurrentImagesNoClamp(n, t, D) ==
    LET raw == (3 * t) \div D
        tis3 == (3 * t) - (raw * D)
        inTransition == raw < n - 1 /\ tis3 >= D - BlendDen
    IN  [segment_idx |-> raw,
         overlay |-> IF inTransition THEN raw + 1 ELSE -1,
         blend |-> IF inTransition THEN tis3 - (D - BlendDen) ELSE 0]

\* The same with a transition that starts strictly after window - 0.5.
GetCurrentImagesLateStart(n, t, D) ==
    LET raw == (3 * t) \div D
        segment_idx == Min(raw, n - 1)
        tis3 == (3 * t) - (raw * D)
        inTransition == segment_idx < n - 1 /\ tis3 > D - BlendDen
    IN  [segment_idx |-> segment_idx,
         overlay |-> IF inTransition THEN segment_idx + 1 ELSE -1,
         blend |-> IF inTransition THEN tis3 - (D - BlendDen) ELSE 0]

GetCurrentImages(n, t, D) ==
    LET raw == (3 * t) \div D
        segment_idx == Min(raw, n - 1)
        tis3 == (3 * t) - (raw * D)
        inTransition == segment_idx < n - 1 /\ tis3 >= D - BlendDen
    IN  [segment_idx |-> segment_idx,
         overlay |-> IF inTransition THEN segment_idx + 1 ELSE -1,
         blend |-> IF inTransition THEN tis3 - (D - BlendDen) ELSE 0]

\* The caption scan of _add_text_overlay: index of the first segment with
\* start <= t <= end, scanning from position i; 0 when none (None).
RECURSIVE ScanLast(_, _, _)
ScanLast(segs, t, i) ==
    IF i < 1 THEN 0
    ELSE IF segs[i].start <= t /\ t <= segs[i].end THEN i
    ELSE ScanLast(segs, t, i - 1)

RECURSIVE Scan(_, _, _)
Scan(segs, t, i) ==
    IF i > Len(segs) THEN 0
    ELSE IF segs[i].start <= t /\ t <= segs[i].end THEN i
    ELSE Scan(segs, t, i + 1)

FindCurrentSegmentLast(segs, t) == ScanLast(segs, t, Len(segs))

FindCurrentSegment(segs, t) == Scan(segs, t, 1)

\* The fade envelope of _add_text_overlay for a segment [s, e] with s < e at
\* time t, s <= t <= e: segment_progress p = (t - s) / (e - s) and
\* fade_duration = 0.1.
\* Fade in: alpha = int((segment_progress / fade_duration) * 255)
FadeInHalfSlope(s, e, t) == (5 * AlphaMax * (t - s)) \div (e - s)

FadeIn(s, e, t) == (10 * AlphaMax * (t - s)) \div (e - s)

\* Fade out: alpha = int((1 - fade_out_progress) * 255), with
\* fade_out_progress = (segment_progress - (1 - fade_duration)) / fade_duration
FadeOut(s, e, t) == (10 * AlphaMax * (e - t)) \div (e - s)

FadeAlphaNoFadeOut(s, e, t) ==
    IF 10 * (t - s) < (e - s) THEN FadeIn(s, e, t) ELSE AlphaMax

FadeAlpha(s, e, t) ==
    IF 10 * (t - s) < (e - s) THEN FadeIn(s, e, t)
    ELSE IF 10 * (t - s) > 9 * (e - s) THEN FadeOut(s, e, t)
    ELSE AlphaMax

\* _add_text_overlay: what happens to the frame at time t.
\*   kind "frame": no current segment, the frame is returned as it is;
\*   kind "text": the text of segment `caption` is drawn with `alpha`;
\*   kind "ZeroDivisionError": the progress division fails (start = end).
AddTextOverlay(segs, t) ==
    LET c == FindCurrentSegment(segs, t)
    IN  IF c = 0 THEN [kind |-> "frame", caption |-> 0, alpha |-> 0]
        ELSE IF segs[c].end - segs[c].start = 0
            THEN [kind |-> "ZeroDivisionError", caption |-> c, alpha |-> 0]
        ELSE [kind |-> "text", caption |-> c,
              alpha |-> FadeAlpha(segs[c].start, segs[c].end, t)]

\* _validate_inputs: "ok", or the exception it raises.  An image or audio
\* asset passes os.path.exists unless it is "missing".
AllKeys == {"start", "end", "text"}

RECURSIVE ValidateSegments(_, _)
ValidateSegments(timing_data, i) ==
    IF i > Len(timing_data) THEN "ok"
    ELSE IF timing_data[i].keys # AllKeys THEN "ValueError"
    ELSE IF timing_data[i].start >= timing_data[i].end THEN "ValueError"
    ELSE ValidateSegments(timing_data, i + 1)

ValidateInputsNoEmptyCheck(images, audio, timing_data) ==
    IF Len(images) # 3 THEN "ValueError"
    ELSE IF \E i \in 1..Len(images) : images[i] = "missing"
        THEN "FileNotFoundError"
    ELSE IF ~audio THEN "FileNotFoundError"
    ELSE ValidateSegments(timing_data, 1)

ValidateInputs(images, audio, timing_data) ==
    IF Len(images) # 3 THEN "ValueError"
    ELSE IF \E i \in 1..Len(images) : images[i] = "missing"
        THEN "FileNotFoundError"
    ELSE IF ~audio THEN "FileNotFoundError"
    ELSE IF timing_data = <<>> THEN "ValueError"
    ELSE ValidateSegments(timing_data, 1)

\* max(seg["end"] for seg in timing_data) if timing_data else 10.0
DefaultDuration(timing_data) ==
    IF timing_data = <<>> THEN 10 * TicksPerSecond
    ELSE CHOOSE m \in {timing_data[i].end : i \in 1..Len(timing_data)} :
            \A i \in 1..Len(timing_data) : timing_data[i].end <= m

\* The word grouping of main and of load_timing_data: one caption per
\* words[i:i + words_per_segment], i = 0, 4, 8, ...
MakeSegment(segment_words) ==
    [start |-> segment_words[1].start,
     end |-> segment_words[Len(segment_words)].end,
     text |-> [k \in 1..Len(segment_words) |-> segment_words[k].word],
     keys |-> AllKeys]

\* The same without the last, shorter group.
RECURSIVE GroupFromDropPartial(_, _)
GroupFromDropPartial(words, i) ==
    IF i + words_per_segment > Len(words) THEN <<>>
    ELSE <<MakeSegment(SubSeq(words, i + 1, i + words_per_segment))>>
         \o GroupFromDropPartial(words, i + words_per_segment)

RECURSIVE GroupFrom(_, _)
GroupFrom(words, i) ==
    IF i >= Len(words) THEN <<>>
    ELSE <<MakeSegment(SubSeq(words, i + 1,
                              Min(i + words_per_segment, Len(words))))>>
         \o GroupFrom(words, i + words_per_segment)

\* segments of main / load_timing_data: grouped words, or the transcription
\* segments when there are no word timings.
TimingSegments(words, fallback) ==
    IF words # <<>> THEN GroupFrom(words, 0) ELSE fallback

\* A caption text is the sequence of its words (text.split()), a word being
\* its number of characters; a line is a sequence of words joined by single
\* spaces.
RECURSIVE WordChars(_)
WordChars(line) ==
    IF line = <<>> THEN 0 ELSE Head(line) + WordChars(Tail(line))

LineChars(line) ==
    IF line = <<>> THEN 0 ELSE WordChars(line) + (Len(line) - 1)

\* The fonts the fallback chain can end with: a TrueType face ("Impact",
\* "Arial Black") scaled to font_size, or ImageFont.load_default(), whose
\* glyphs do not follow font_size.
Fonts == {"truetype", "default"}

\* Width of one character in pixels.
GlyphAdvance(font, font_size) ==
    IF font = "truetype" THEN font_size \div 2 ELSE DefaultGlyphAdvance

\* text_width = bbox[2] - bbox[0] of textbbox((0, 0), test_text, font=font)
TextWidth(line, font, font_size) == LineChars(line) * GlyphAdvance(font, font_size)

\* A wrapping loop without the append of the last line after the loop.
RECURSIVE WrapWordsNoLastLine(_, _, _, _, _, _, _)
WrapWordsNoLastLine(words, i, lines, current_line, font, font_size, maxw) ==
    IF i > Len(words)
    THEN lines
    ELSE LET test_line == Append(current_line, words[i])
         IN  IF TextWidth(test_line, font, font_size) <= maxw
             THEN WrapWordsNoLastLine(words, i + 1, lines, test_line, font,
                                      font_size, maxw)
             ELSE WrapWordsNoLastLine(words, i + 1,
                                      IF current_line # <<>>
                                      THEN Append(lines, current_line)
                                      ELSE lines,
                                      <<words[i]>>, font, font_size, maxw)

\* _wrap_text: the loop over the words from word i on, with the lines
\* finished so far and the line being filled.
RECURSIVE WrapWords(_, _, _, _, _, _, _)
WrapWords(words, i, lines, current_line, font, font_size, maxw) ==
    IF i > Len(words)
    THEN IF current_line # <<>> THEN Append(lines, current_line) ELSE lines
    ELSE LET test_line == Append(current_line, words[i])
         IN  IF TextWidth(test_line, font, font_size) <= maxw
             THEN WrapWords(words, i + 1, lines, test_line, font, font_size,
                            maxw)
             ELSE WrapWords(words, i + 1,
                            IF current_line # <<>>
                            THEN Append(lines, current_line) ELSE lines,
                            <<words[i]>>, font, font_size, maxw)

WrapText(text, font, font_size, maxw) ==
    WrapWords(text, 1, <<>>, <<>>, font, font_size, maxw)

\* max_width = int(self.width * 0.8), max_height = int(self.height * 0.4)
max_width == (width * 8) \div 10

max_height == (height * 4) \div 10

\* initial_font_size = max(int(self.height * 0.05), 20)
initial_font_size == Max((height * 5) \div 100, 20)

\* min_font_size = max(int(initial_font_size * 0.4), 12)
min_font_size == Max((initial_font_size * 4) \div 10, 12)

\* range(initial_font_size, min_font_size - 1, -1): the size tried after
\* font_size.
NextFontSizeSkipping(font_size) == font_size - 2

NextFontSize(font_size) == font_size - 1

\* The size returned when no tried size fits.
FallbackFontSizeBelowMin == min_font_size - 1

FallbackFontSize == min_font_size

\* _calculate_font_and_wrap_text: the loop from font_size on.
RECURSIVE SearchFontSize(_, _, _)
SearchFontSize(text, font, font_size) ==
    IF font_size < min_font_size
    THEN [wrapped_text |-> WrapText(text, font, min_font_size, max_width),
          font_size |-> FallbackFontSize]
    ELSE LET wrapped_text == WrapText(text, font, font_size, max_width)
             total_height == Len(wrapped_text) * (font_size + 10)
         IN  IF total_height <= max_height
             THEN [wrapped_text |-> wrapped_text, font_size |-> font_size]
             ELSE SearchFontSize(text, font, NextFontSize(font_size))

CalculateFontAndWrapText(text, font) ==
    SearchFontSize(text, font, initial_font_size)

\* _resize_and_crop_image up to the crop: the crop box (left, upper, right,
\* lower) in the source's pixel coordinates and the axis that is cropped.
\* img_aspect > aspect_ratio is img_width / img_height > width / height.
CropBox(img_width, img_height) ==
    IF img_width * height > img_height * width
    THEN LET new_height == img_height
             new_width == (img_height * width) \div height
             left == (img_width - new_width) \div 2
         IN  [axis |-> "horizontal", left |-> left, upper |-> 0,
              right |-> left + new_width, lower |-> new_height]
    ELSE LET new_width == img_width
             new_height == (img_width * height) \div width
             top == (img_height - new_height) \div 2
         IN  [axis |-> "vertical", left |-> 0, upper |-> top,
              right |-> new_width, lower |-> top + new_height]

\* img.resize((self.width, self.height), LANCZOS) of the cropped image: an
\* image of the target size; of a crop without pixels the library either
\* makes an image of the target size without picture content or raises.
ResizeOutcomes(box) ==
    IF box.right > box.left /\ box.lower > box.upper
    THEN { [kind |-> "image", w |-> width, h |-> height] }
    ELSE { [kind |-> "image", w |-> width, h |-> height],
           [kind |-> "ValueError", w |-> 0, h |-> 0] }

\* DocProcessor.extract_key_points: the prompt is sent to the text LLM, whose
\* response is `response`; the function has no return statement.
None == "None"

ExtractKeyPoints(response) == None

\* ScriptWriter.generate_script up to the LLM call:
\* self.prompt_template.replace("[Insert summary here]", key_points)
GenerateScriptPrompt(key_points) ==
    IF key_points = None
    THEN [kind |-> "TypeError", summary |-> None]
    ELSE [kind |-> "prompt", summary |-> key_points]

\* ScriptWriter.segment_script.  A script is the sequence of the pieces that
\* re.split(r'[.!?]+\s+', clean_script) yields, a piece being the length of
\* its stripped text; a segment is the sequence of the indices of the pieces
\* it is joined from, the whole script being all of them.
RECURSIVE KeptFrom(_, _)
KeptFrom(sentences, i) ==
    IF i > Len(sentences) THEN <<>>
    ELSE IF sentences[i] > 0 /\ sentences[i] > 10
         THEN <<i>> \o KeptFrom(sentences, i + 1)
         ELSE KeptFrom(sentences, i + 1)

SegmentScript(sentences) ==
    LET segs == KeptFrom(sentences, 1)
        third == Len(segs) \div 3
    IN  IF Len(segs) > 3
        THEN << SubSeq(segs, 1, third),
                SubSeq(segs, third + 1, 2 * third),
                SubSeq(segs, (2 * third) + 1, Len(segs)) >>
        ELSE IF Len(segs) < 3
        THEN << [i \in 1..Len(sentences) |-> i] >>
        ELSE << <<segs[1]>>, <<segs[2]>>, <<segs[3]>> >>

\* ImageGenerator.generate_images and save_images: one image per script
\* segment, saved as image_{i}.png, i = 0, 1, ...; the numbers of the files.
GenerateImages(script_segments) == {i - 1 : i \in 1..Len(script_segments)}

\* The image paths main hands to the render: image_0, image_1, image_2.
image_paths == {0, 1, 2}

\* create_sample_timing_data.  segment_duration = total_duration / n need not
\* be a whole number of ticks: the times of the result are numerators over
\* the denominator den (= n), so that i * segment_duration is (i * T) / n.
CreateSampleTimingDataLongEnd(text_segments, total_duration) ==
    IF text_segments = <<>> THEN [den |-> 1, timing_data |-> <<>>]
    ELSE [den |-> Len(text_segments),
          timing_data |->
            [i \in 1..Len(text_segments) |->
               [start |-> (i - 1) * total_duration,
                end |-> (i + 1) * total_duration,
                text |-> <<text_segments[i]>>, keys |-> AllKeys]]]

CreateSampleTimingData(text_segments, total_duration) ==
    IF text_segments = <<>> THEN [den |-> 1, timing_data |-> <<>>]
    ELSE [den |-> Len(text_segments),
          timing_data |->
            [i \in 1..Len(text_segments) |->
               [start |-> (i - 1) * total_duration,
                end |-> i * total_duration,
                text |-> <<text_segments[i]>>, keys |-> AllKeys]]]

\* ------------------------------------------------------------ request inputs
Entries == {"api", "main", "direct"}

ImageStates == {"ok", "missing", "corrupt"}

\* Image lists: three images of which at most one is missing or undecodable,
\* and lists of two and of four images.
ImageLists ==
    { il \in [1..3 -> ImageStates] :
        Cardinality({i \in 1..3 : il[i] # "ok"}) <= 1 }
    \cup {<<"ok", "ok">>, <<"ok", "ok", "ok", "ok">>}

CaptionPool ==
    { [start |-> 0, end |-> CaptionTicks, text |-> <<1>>, keys |-> AllKeys],
      [start |-> CaptionTicks, end |-> 2 * CaptionTicks, text |-> <<2>>,
       keys |-> AllKeys],
      [start |-> CaptionTicks, end |-> CaptionTicks, text |-> <<3>>,
       keys |-> AllKeys],
      [start |-> 2 * CaptionTicks, end |-> CaptionTicks, text |-> <<4>>,
       keys |-> AllKeys],
      [start |-> 0, end |-> CaptionTicks, text |-> <<5>>,
       keys |-> {"start", "text"}] }

CaptionLists == UNION {[1..n -> CaptionPool] : n \in 0..MaxCaptions}

\* Transcribed words follow one another without gap; a word lasts WordTicks
\* or nothing (a zero-length word, start = end), and a transcription has at
\* most one zero-length word.
RECURSIVE WordStart(_, _)
WordStart(ds, i) == IF i <= 1 THEN 0 ELSE WordStart(ds, i - 1) + ds[i - 1]

MakeWords(ds) ==
    [i \in 1..Len(ds) |->
        [word |-> i, start |-> WordStart(ds, i),
         end |-> WordStart(ds, i) + ds[i]]]

WordDurations ==
    UNION { { ds \in [1..n -> {0, WordTicks}] :
                Cardinality({i \in 1..n : ds[i] = 0}) <= 1 } :
            n \in 0..MaxWords }

WordLists == {MakeWords(ds) : ds \in WordDurations}

ScenarioDuration == 9 * TicksPerSecond

Durations == (1..MaxDuration) \cup {ScenarioDuration}

NoFrames == <<>>

\* -------------------------------------------------------------------- state
VARIABLES
    request,        \* the inputs of this run
    pc,             \* position of the render call
    exc,            \* the exception in flight or raised, "none" if none
    segments,       \* the caption list handed to the renderer
    duration,       \* the duration handed to the renderer, in ticks
    tempdir,        \* "none", "exists", "removed": the mkdtemp directory
    frames,         \* the frame files of the temp dir: sequence number -> frame
    loaded,         \* number of images loaded and prepared
    frame_idx,      \* the frame loop's index
    outfile,        \* the file at output_path: "absent", "old", "partial", "video"
    muxed,          \* the frame files the encoder read, NoFrames before it ran
    encoder_args,   \* the arguments the encoder was run with, NoArgs before
    mux_calls,      \* number of encoder runs
    cleanup_calls,  \* number of _cleanup_temp_files calls
    late_steps,     \* load/frame/encode steps taken after a cleanup call
    overlay_calls,  \* number of _add_text_overlay calls
    result,         \* what the caller got back
    probe,          \* input and output of a pure-function application
    prepared,       \* the prepared images of the render: what is drawn on each
    renders,        \* concurrent renders: the state of each invocation
    tmpfs,          \* the temporary directories that exist, with their files
    accesses,       \* the accesses the concurrent renders made to directories
    output_dir,     \* the videos of the API's output directory, by number
    overwritten     \* has an auto-named render replaced an existing video?

vars == <<request, pc, exc, segments, duration, tempdir, frames, loaded,
          frame_idx, outfile, muxed, encoder_args, mux_calls, cleanup_calls,
          late_steps, overlay_calls, result, probe, prepared, renders, tmpfs,
          accesses, output_dir, overwritten>>

concVars == <<renders, tmpfs, accesses>>

dirVars == <<output_dir, overwritten>>

NoProbe == [fn |-> "none"]

NoResult == [status |-> "none"]

NoArgs == [framerate |-> 0, t |-> 0, r |-> 0]

RenderInit ==
    /\ exc = "none"
    /\ segments = <<>>
    /\ duration = 0
    /\ tempdir = "none"
    /\ frames = NoFrames
    /\ loaded = 0
    /\ frame_idx = 0
    /\ muxed = NoFrames
    /\ encoder_args = NoArgs
    /\ mux_calls = 0
    /\ cleanup_calls = 0
    /\ late_steps = 0
    /\ overlay_calls = 0
    /\ result = NoResult
    /\ prepared = <<>>

\* No concurrent renders are modelled.
ConcIdle ==
    /\ renders = <<>>
    /\ tmpfs = <<>>
    /\ accesses = {}

\* The output directory is not modelled.
DirIdle ==
    /\ output_dir = {}
    /\ overwritten = FALSE

\* The audio file of a request: audio says whether the path exists,
\* audio_duration is the length of its audio stream in ticks, 0 when the file
\* is missing or its duration cannot be obtained.
AudioFiles ==
    { [audio |-> FALSE, audio_duration |-> 0],
      [audio |-> TRUE, audio_duration |-> 0],
      [audio |-> TRUE, audio_duration |-> ScenarioDuration] }

\* A request through VideoGenerationAPI.create_video.
ApiRequests ==
    { [entry |-> "api", images |-> il, audio |-> au.audio,
       audio_duration |-> au.audio_duration, timing_data |-> td,
       words |-> <<>>, has_duration |-> d # 0, duration |-> d,
       out_exists |-> oe] :
        il \in ImageLists, au \in AudioFiles, td \in CaptionLists,
        d \in Durations \cup {0}, oe \in BOOLEAN }

\* What the transcription hands to main and to load_timing_data: word
\* timings, or no word timings and sentence-level segments.
Transcriptions ==
    { [words |-> w, segments |-> <<>>] : w \in WordLists \ {<<>>} }
    \cup { [words |-> <<>>, segments |-> td] :
              td \in { c \in CaptionLists :
                         \A i \in 1..Len(c) : c[i].keys = AllKeys } }

\* A request through the pipeline entry point ("main") or through the direct
\* call of test_video_assembly ("direct"): exactly three image paths, an
\* audio file that exists, and the audio's duration.
PipelineRequests ==
    { [entry |-> e, images |-> il, audio |-> TRUE, audio_duration |-> d,
       timing_data |-> tr.segments, words |-> tr.words,
       has_duration |-> TRUE, duration |-> d, out_exists |-> oe] :
        e \in {"main", "direct"},
        il \in { l \in ImageLists :
                   Len(l) = 3 /\ \A i \in 1..3 : l[i] # "missing" },
        tr \in Transcriptions, d \in Durations, oe \in BOOLEAN }

Requests == ApiRequests \cup PipelineRequests

Init ==
    /\ request \in Requests
    /\ outfile = IF request.out_exists THEN "old" ELSE "absent"
    /\ probe = NoProbe
    /\ pc = "start"
    /\ RenderInit
    /\ ConcIdle
    /\ DirIdle

\* ------------------------------------------------------------------ actions

\* VideoGenerationAPI.create_video, up to the render call: _validate_inputs
\* (outside the try block, so its exception leaves create_video), the output
\* path and the default duration.
ApiCreateVideo ==
    /\ pc = "start"
    /\ request.entry = "api"
    /\ LET v == ValidateInputs(request.images, request.audio,
                               request.timing_data)
       IN  IF v # "ok"
           THEN /\ exc' = v
                /\ pc' = "done"
                /\ result' = [status |-> "raised"]
                /\ UNCHANGED <<segments, duration>>
           ELSE /\ segments' = request.timing_data
                /\ duration' = IF request.has_duration THEN request.duration
                               ELSE DefaultDuration(request.timing_data)
                /\ pc' = "call"
                /\ UNCHANGED <<exc, result>>
    /\ UNCHANGED <<request, tempdir, frames, loaded, frame_idx, outfile,
                   muxed, encoder_args, mux_calls, cleanup_calls, late_steps,
                   overlay_calls, probe, prepared, concVars, dirVars>>

\* main / test_video_assembly, up to the render call: the transcribed words
\* are grouped into captions and the duration is the audio's.
PipelinePrepare ==
    /\ pc = "start"
    /\ request.entry \in {"main", "direct"}
    /\ segments' = TimingSegments(request.words, request.timing_data)
    /\ duration' = request.duration
    /\ pc' = "call"
    /\ UNCHANGED <<request, exc, tempdir, frames, loaded, frame_idx, outfile,
                   muxed, encoder_args, mux_calls, cleanup_calls, late_steps,
                   overlay_calls, result, probe, prepared, concVars, dirVars>>

\* Has the caller's keyword list a parameter create_video_from_components
\* does not declare?  main passes quality_preset.
UnexpectedKeyword(entry) == entry = "main"

\* The call of create_video_from_components and the head of
\* create_video_with_timed_text: the TimingSegment conversion (seg["start"],
\* seg["end"], seg["text"]).
CallRender ==
    /\ pc = "call"
    /\ IF UnexpectedKeyword(request.entry)
       THEN exc' = "TypeError" /\ pc' = "return"
       ELSE IF \E i \in 1..Len(segments) : segments[i].keys # AllKeys
       THEN exc' = "KeyError" /\ pc' = "return"
       ELSE exc' = exc /\ pc' = "mkdtemp"
    /\ UNCHANGED <<request, segments, duration, tempdir, frames, loaded,
                   frame_idx, outfile, muxed, encoder_args, mux_calls,
                   cleanup_calls, late_steps, overlay_calls, result, probe,
                   prepared, concVars, dirVars>>

\* Where the render goes when the frame loop is at index i.
LoopHead(i) == IF i < TotalFrames(duration) THEN "frames" ELSE "mux"

\* Where the render goes when k images are loaded.
LoadHead(k) == IF k < Len(request.images) THEN "load" ELSE LoopHead(0)

\* temp_dir = tempfile.mkdtemp(): before the try block.
MakeTempDir ==
    /\ pc = "mkdtemp"
    /\ \/ /\ tempdir' = "exists"
          /\ pc' = LoadHead(0)
          /\ exc' = exc
       \/ /\ tempdir' = tempdir
          /\ pc' = "return"
          /\ exc' = "OSError"
    /\ UNCHANGED <<request, segments, duration, frames, loaded, frame_idx,
                   outfile, muxed, encoder_args, mux_calls, cleanup_calls,
                   late_steps, overlay_calls, result, probe, prepared,
                   concVars, dirVars>>

Late == IF cleanup_calls > 0 THEN 1 ELSE 0

\* Where an exception raised inside the try block of
\* create_video_with_timed_text goes: the finally block.
FinallyTargetNoFinally == "return"

FinallyTargetEncodes == "mux"

FinallyTarget == "cleanup"

\* One iteration of the image loop: Image.open and _resize_and_crop_image.
LoadImage ==
    /\ pc = "load"
    /\ late_steps' = late_steps + Late
    /\ IF request.images[loaded + 1] = "ok"
       THEN /\ loaded' = loaded + 1
            /\ prepared' = Append(prepared, {})
            /\ pc' = LoadHead(loaded + 1)
            /\ exc' = exc
       ELSE /\ loaded' = loaded
            /\ prepared' = prepared
            /\ pc' = FinallyTarget
            /\ exc' = IF request.images[loaded + 1] = "missing"
                      THEN "FileNotFoundError" ELSE "UnidentifiedImageError"
    /\ UNCHANGED <<request, segments, duration, tempdir, frames, frame_idx,
                   outfile, muxed, encoder_args, mux_calls, cleanup_calls,
                   overlay_calls, result, probe, concVars, dirVars>>

\* The file written for frame index i: frame_pattern % (i + 1).
FrameNumberZeroBased(i) == i

FrameNumber(i) == i + 1

\* The frame composed in one iteration of the frame loop, of n prepared
\* images, duration D and captions segs, at frame index i.
ComposeFrameOf(n, D, segs, i) ==
    LET t == CurrentTime(i)
        img == GetCurrentImages(n, t, D)
        txt == AddTextOverlay(segs, t)
    IN  [frame_idx |-> i, time |-> t,
         base |-> img.segment_idx,
         overlay |-> IF img.overlay # -1 /\ img.blend > 0
                     THEN img.overlay ELSE -1,
         blend |-> IF img.overlay # -1 /\ img.blend > 0 THEN img.blend ELSE 0,
         text |-> txt.kind, caption |-> txt.caption, alpha |-> txt.alpha]

ComposeFrame(i) == ComposeFrameOf(loaded, duration, segments, i)

WriteFrame(dir, n, frame) ==
    (n :> [frame EXCEPT !.writes =
              IF n \in DOMAIN dir THEN dir[n].writes + 1 ELSE 1]) @@ dir

\* What the frame of an iteration without crossfade is drawn on: a copy of
\* the prepared image (frame = base_image.copy()) or the prepared image
\* itself.
FrameCanvasAlias == "alias"

FrameCanvas == "copy"

\* What is drawn on the canvas of frame f before the caption: the picture of
\* the base image, blended with the next image in a crossfade.  A picture is
\* modelled by the set of captions drawn on it.
CanvasInk(f) ==
    IF f.overlay # -1 THEN prepared[f.base + 1] \cup prepared[f.overlay + 1]
    ELSE prepared[f.base + 1]

\* The caption _draw_text_with_outline draws for frame f.
DrawnInk(f) == IF f.text = "text" THEN {f.caption} ELSE {}

\* The prepared images after the caption of frame f is drawn.
AfterDrawing(f) ==
    IF FrameCanvas = "alias" /\ f.overlay = -1
    THEN [prepared EXCEPT ![f.base + 1] = @ \cup DrawnInk(f)]
    ELSE prepared

\* One iteration of the frame loop: compose, caption, save.  The save can
\* fail (OSError), and the caption of a zero-length segment raises.
GenerateFrame ==
    /\ pc = "frames"
    /\ late_steps' = late_steps + Late
    /\ overlay_calls' = overlay_calls + 1
    /\ LET f == ComposeFrame(frame_idx)
       IN  IF f.text = "ZeroDivisionError"
           THEN /\ exc' = "ZeroDivisionError"
                /\ pc' = FinallyTarget
                /\ UNCHANGED <<frames, frame_idx, prepared>>
           ELSE /\ prepared' = AfterDrawing(f)
                /\ \/ /\ frames' = WriteFrame(frames, FrameNumber(frame_idx),
                                              f @@ [writes |-> 0,
                                                    ink |-> CanvasInk(f)
                                                            \cup DrawnInk(f)])
                      /\ frame_idx' = frame_idx + 1
                      /\ pc' = LoopHead(frame_idx + 1)
                      /\ exc' = exc
                   \/ /\ exc' = "OSError"
                      /\ pc' = FinallyTarget
                      /\ UNCHANGED <<frames, frame_idx>>
    /\ UNCHANGED <<request, segments, duration, tempdir, loaded, outfile,
                   muxed, encoder_args, mux_calls, cleanup_calls, result,
                   probe, concVars, dirVars>>

\* The encoder's arguments: the frame sequence is read at framerate, the
\* output is limited to t (in ticks) and written at rate r.
EncoderArgsFrameLength(d) ==
    [framerate |-> fps, t |-> (TotalFrames(d) * TicksPerSecond) \div fps,
     r |-> fps]

EncoderArgs(d) == [framerate |-> fps, t |-> d, r |-> fps]

\* What leaves _combine_frames_and_audio when ffmpeg.run fails: the
\* ffmpeg.Error is printed and re-raised.
EncoderFailureSwallowed == "none"

EncoderFailure == "ffmpeg.Error"

\* _combine_frames_and_audio: the encoder reads the frame sequence and the
\* audio and writes output_path itself (overwrite_output=True); ffmpeg.Error
\* is printed and re-raised.  The encoder
\*   - succeeds, which takes at least one frame and the audio;
\*   - or fails while opening its inputs (no frame, no or unreadable audio),
\*     before it has touched output_path;
\*   - or fails after it has opened output_path for writing, which leaves the
\*     truncated or partly written file there.
CombineFramesAndAudio ==
    /\ pc = "mux"
    /\ late_steps' = late_steps + Late
    /\ mux_calls' = mux_calls + 1
    /\ muxed' = frames
    /\ encoder_args' = EncoderArgs(duration)
    /\ \/ /\ request.audio
          /\ frames # NoFrames
          /\ outfile' = "video"
          /\ exc' = exc
          /\ pc' = "cleanup"
       \/ /\ outfile' = outfile
          /\ exc' = EncoderFailure
          /\ pc' = FinallyTarget
       \/ /\ request.audio
          /\ frames # NoFrames
          /\ outfile' = "partial"
          /\ exc' = EncoderFailure
          /\ pc' = FinallyTarget
    /\ UNCHANGED <<request, segments, duration, tempdir, frames, loaded,
                   frame_idx, cleanup_calls, overlay_calls, result, probe,
                   prepared, concVars, dirVars>>

\* The exception in flight after shutil.rmtree has failed, e being the one in
\* flight before: the failure is caught (except Exception), printed and
\* dropped.
AfterFailedCleanupRaising(e) == "PermissionError"

AfterFailedCleanup(e) == e

\* The finally block: _cleanup_temp_files.  shutil.rmtree removes the
\* directory and its frames, or fails, which is printed and swallowed.
CleanupTempFiles ==
    /\ pc = "cleanup"
    /\ cleanup_calls' = cleanup_calls + 1
    /\ pc' = "return"
    /\ \/ /\ tempdir' = "removed"
          /\ frames' = NoFrames
          /\ exc' = exc
       \/ /\ exc' = AfterFailedCleanup(exc)
          /\ UNCHANGED <<tempdir, frames>>
    /\ UNCHANGED <<request, segments, duration, loaded, frame_idx, outfile,
                   muxed, encoder_args, mux_calls, late_steps, overlay_calls,
                   result, probe, prepared, concVars, dirVars>>

\* Does the except clause of create_video catch exception e?  It is
\* "except Exception".
CaughtByApiEncoderOnly(e) == e = "ffmpeg.Error"

CaughtByApi(e) == TRUE

\* The render call returns or raises into its caller: create_video returns
\* the success dictionary or turns an exception into the error dictionary,
\* the other callers get the output path or see the exception.
ReturnToCaller ==
    /\ pc = "return"
    /\ pc' = "done"
    /\ IF exc = "none"
       THEN /\ result' = IF request.entry = "api"
                         THEN [status |-> "success",
                               video_path |-> "output_path",
                               duration |-> duration,
                               image_count |-> Len(request.images),
                               text_segments |-> Len(request.timing_data)]
                         ELSE [status |-> "success",
                               video_path |-> "output_path"]
            /\ exc' = exc
       ELSE IF request.entry = "api" /\ CaughtByApi(exc)
       THEN /\ result' = [status |-> "error", error |-> exc,
                          video_path |-> None]
            /\ exc' = "none"
       ELSE /\ result' = [status |-> "raised"]
            /\ exc' = exc
    /\ UNCHANGED <<request, segments, duration, tempdir, frames, loaded,
                   frame_idx, outfile, muxed, encoder_args, mux_calls,
                   cleanup_calls, late_steps, overlay_calls, probe, prepared,
                   concVars, dirVars>>

Next ==
    \/ ApiCreateVideo
    \/ PipelinePrepare
    \/ CallRender
    \/ MakeTempDir
    \/ LoadImage
    \/ GenerateFrame
    \/ CombineFramesAndAudio
    \/ CleanupTempFiles
    \/ ReturnToCaller

Spec == Init /\ [][Next]_vars

\* ------------------------------------------- applications of pure functions
NoRequest == [entry |-> "none"]

Pending == [kind |-> "pending"]

TimelineProbes ==
    { [fn |-> "_get_current_images", n |-> 3, t |-> t, D |-> D,
       segs |-> <<>>, out |-> Pending] :
        t \in 0..MaxProbeTime,
        D \in (1..MaxProbeDuration) \cup {ScenarioDuration} }

ProbeCaption(s, len) ==
    [start |-> s, end |-> s + len, text |-> <<1>>, keys |-> AllKeys]

ProbeCaptionLists ==
    { <<ProbeCaption(s, len)>> : s \in {0, ProbeStart}, len \in 0..MaxProbeLen }
    \cup { c \in CaptionLists : \A i \in 1..Len(c) : c[i].keys = AllKeys }

CaptionProbes ==
    { [fn |-> "_add_text_overlay", n |-> 3, t |-> t, D |-> 0,
       segs |-> segs, out |-> Pending] :
        t \in 0..MaxProbeTime, segs \in ProbeCaptionLists }

WordLengths == {1} \cup {k * WordLenStep : k \in 1..MaxWordLenSteps}

ProbeTexts ==
    { [i \in 1..n |-> len] : n \in 0..MaxTextWords, len \in WordLengths }

FontProbes ==
    { [fn |-> "_calculate_font_and_wrap_text", text |-> text, font |-> font,
       out |-> Pending] :
        text \in ProbeTexts, font \in Fonts }

ImageSizes ==
    ((1..MaxImageSide) \X (1..MaxImageSide))
    \cup {<<1024, 1024>>, <<width, height>>, <<height, width>>}

ImageProbes ==
    { [fn |-> "_resize_and_crop_image", img_width |-> sz[1],
       img_height |-> sz[2], box |-> Pending, out |-> Pending] :
        sz \in ImageSizes }

\* Lengths of the pieces of a script: an empty piece, a piece of 10
\* characters and one of 11.
SentenceLengths == {0, 10, 11}

ScriptProbes ==
    { [fn |-> "segment_script", sentences |-> sc, out |-> Pending] :
        sc \in UNION { [1..n -> SentenceLengths] : n \in 0..MaxSentences } }

\* Responses of the text LLM to the key-point prompt.
Responses == {"key points a", "key points b"}

KeyPointProbes ==
    { [fn |-> "extract_key_points", response |-> rsp, out |-> Pending] :
        rsp \in Responses }

SampleProbes ==
    { [fn |-> "create_sample_timing_data", text_segments |-> tx,
       total_duration |-> T, out |-> Pending] :
        tx \in UNION { [1..n -> {1, 2}] : n \in 0..MaxTexts },
        T \in 1..MaxSampleDuration }

WrapWordLengths == {1, 3, MaxWrapWordLen}

WrapWidths ==
    {0, WrapWidthStep, (2 * WrapWidthStep) - 1, 4 * WrapWidthStep}

WrapProbes ==
    { [fn |-> "_wrap_text", text |-> text, font |-> font,
       font_size |-> WrapFontSize, max_width |-> maxw, out |-> Pending] :
        text \in UNION { [1..n -> WrapWordLengths] : n \in 0..MaxWrapWords },
        font \in Fonts, maxw \in WrapWidths }

InitPure ==
    /\ probe \in TimelineProbes \cup CaptionProbes \cup FontProbes
                 \cup ImageProbes \cup ScriptProbes \cup KeyPointProbes
                 \cup SampleProbes \cup WrapProbes
    /\ request = NoRequest
    /\ outfile = "absent"
    /\ pc = "idle"
    /\ RenderInit
    /\ ConcIdle
    /\ DirIdle

ApplyGetCurrentImages ==
    /\ probe.fn = "_get_current_images"
    /\ probe.out = Pending
    /\ probe' = [probe EXCEPT !.out = GetCurrentImages(probe.n, probe.t, probe.D)]
    /\ UNCHANGED <<request, pc, exc, segments, duration, tempdir, frames,
                   loaded, frame_idx, outfile, muxed, encoder_args, mux_calls,
                   cleanup_calls, late_steps, overlay_calls, result, prepared,
                   concVars, dirVars>>

ApplyAddTextOverlay ==
    /\ probe.fn = "_add_text_overlay"
    /\ probe.out = Pending
    /\ probe' = [probe EXCEPT !.out = AddTextOverlay(probe.segs, probe.t)]
    /\ UNCHANGED <<request, pc, exc, segments, duration, tempdir, frames,
                   loaded, frame_idx, outfile, muxed, encoder_args, mux_calls,
                   cleanup_calls, late_steps, overlay_calls, result, prepared,
                   concVars, dirVars>>

ApplyCalculateFontAndWrapText ==
    /\ probe.fn = "_calculate_font_and_wrap_text"
    /\ probe.out = Pending
    /\ probe' = [probe EXCEPT
                   !.out = CalculateFontAndWrapText(probe.text, probe.font)]
    /\ UNCHANGED <<request, pc, exc, segments, duration, tempdir, frames,
                   loaded, frame_idx, outfile, muxed, encoder_args, mux_calls,
                   cleanup_calls, late_steps, overlay_calls, result, prepared,
                   concVars, dirVars>>

ApplyResizeAndCropImage ==
    /\ probe.fn = "_resize_and_crop_image"
    /\ probe.out = Pending
    /\ LET box == CropBox(probe.img_width, probe.img_height)
       IN  \E o \in ResizeOutcomes(box) :
              probe' = [probe EXCEPT !.box = box, !.out = o]
    /\ UNCHANGED <<request, pc, exc, segments, duration, tempdir, frames,
                   loaded, frame_idx, outfile, muxed, encoder_args, mux_calls,
                   cleanup_calls, late_steps, overlay_calls, result, prepared,
                   concVars, dirVars>>

\* main, steps 3 and 5: segment_script, generate_images.
ApplySegmentScript ==
    /\ probe.fn = "segment_script"
    /\ probe.out = Pending
    /\ LET script_segments == SegmentScript(probe.sentences)
       IN  probe' = [probe EXCEPT
                       !.out = [segments |-> script_segments,
                                images |-> GenerateImages(script_segments)]]
    /\ UNCHANGED <<request, pc, exc, segments, duration, tempdir, frames,
                   loaded, frame_idx, outfile, muxed, encoder_args, mux_calls,
                   cleanup_calls, late_steps, overlay_calls, result,
                   prepared, concVars, dirVars>>

\* main, steps 2 and 3: extract_key_points, generate_script.
ApplyExtractKeyPoints ==
    /\ probe.fn = "extract_key_points"
    /\ probe.out = Pending
    /\ LET key_points == ExtractKeyPoints(probe.response)
       IN  probe' = [probe EXCEPT
                       !.out = [key_points |-> key_points,
                                script |-> GenerateScriptPrompt(key_points)]]
    /\ UNCHANGED <<request, pc, exc, segments, duration, tempdir, frames,
                   loaded, frame_idx, outfile, muxed, encoder_args, mux_calls,
                   cleanup_calls, late_steps, overlay_calls, result,
                   prepared, concVars, dirVars>>

ApplyCreateSampleTimingData ==
    /\ probe.fn = "create_sample_timing_data"
    /\ probe.out = Pending
    /\ probe' = [probe EXCEPT
                   !.out = CreateSampleTimingData(probe.text_segments,
                                                  probe.total_duration)]
    /\ UNCHANGED <<request, pc, exc, segments, duration, tempdir, frames,
                   loaded, frame_idx, outfile, muxed, encoder_args, mux_calls,
                   cleanup_calls, late_steps, overlay_calls, result,
                   prepared, concVars, dirVars>>

ApplyWrapText ==
    /\ probe.fn = "_wrap_text"
    /\ probe.out = Pending
    /\ probe' = [probe EXCEPT
                   !.out = [lines |-> WrapText(probe.text, probe.font,
                                               probe.font_size,
                                               probe.max_width)]]
    /\ UNCHANGED <<request, pc, exc, segments, duration, tempdir, frames,
                   loaded, frame_idx, outfile, muxed, encoder_args, mux_calls,
                   cleanup_calls, late_steps, overlay_calls, result,
                   prepared, concVars, dirVars>>

NextPure ==
    \/ ApplyGetCurrentImages
    \/ ApplyAddTextOverlay
    \/ ApplyCalculateFontAndWrapText
    \/ ApplyResizeAndCropImage
    \/ ApplySegmentScript
    \/ ApplyExtractKeyPoints
    \/ ApplyCreateSampleTimingData
    \/ ApplyWrapText

SpecPure == InitPure /\ [][NextPure]_vars

\* ------------------------------------------------------- concurrent renders
\* Two invocations of create_video_with_timed_text that run at the same time
\* (threads or processes of one machine), each with its own request and its
\* own VideoAssembler; their steps interleave.  The three images of each are
\* taken as loadable.
Renders == {1, 2}

DirNames == 1..MaxDirNames

ConcInputs ==
    { [duration |-> d, segments |-> <<c>>] :
        d \in 1..MaxConcDuration,
        c \in { x \in CaptionPool : x.keys = AllKeys /\ x.start < x.end } }

InitConc ==
    /\ renders \in [Renders -> { [pc |-> "mkdtemp", input |-> in, temp_dir |-> 0,
                                  frame_idx |-> 0, written |-> <<>>,
                                  exc |-> "none"] : in \in ConcInputs }]
    /\ tmpfs = <<>>
    /\ accesses = {}
    /\ probe = NoProbe
    /\ request = NoRequest
    /\ outfile = "absent"
    /\ pc = "idle"
    /\ RenderInit
    /\ DirIdle

\* The names tempfile.mkdtemp can return when the directories of fs exist:
\* it creates the directory itself and retries on a name that is taken.
FreshNamesFixedName(fs) == {1}

FreshNames(fs) == DirNames \ DOMAIN fs

\* The access of render r to directory d, with the render that made d.
Access(r, d, op) == [by |-> r, owner |-> tmpfs[d].owner, op |-> op]

\* Where render r goes when its frame loop is at index i.
ConcLoopHead(r, i) ==
    IF i < TotalFrames(renders[r].input.duration) THEN "frames" ELSE "mux"

\* temp_dir = tempfile.mkdtemp()
ConcMakeTempDir(r) ==
    /\ renders[r].pc = "mkdtemp"
    /\ \E d \in FreshNames(tmpfs) :
          /\ tmpfs' = (d :> [owner |-> r, files |-> {}]) @@ tmpfs
          /\ renders' = [renders EXCEPT ![r].temp_dir = d,
                                         ![r].pc = ConcLoopHead(r, 0)]
    /\ UNCHANGED <<request, pc, exc, segments, duration, tempdir, frames,
                   loaded, frame_idx, outfile, muxed, encoder_args, mux_calls,
                   cleanup_calls, late_steps, overlay_calls, result, probe,
                   prepared, accesses, dirVars>>

\* Total number of frames the renders have saved so far.
FramesWrittenByAll == Len(renders[1].written) + Len(renders[2].written)

\* The frame render r composes at its frame index i.
RenderFrameGlobalIndex(r, i) ==
    ComposeFrameOf(3, renders[r].input.duration, renders[r].input.segments,
                   FramesWrittenByAll)

RenderFrame(r, i) ==
    ComposeFrameOf(3, renders[r].input.duration, renders[r].input.segments, i)

\* One iteration of the frame loop of render r: the frame is saved under
\* frame_pattern % (frame_idx + 1) in the render's temp_dir, or the save fails.
ConcGenerateFrame(r) ==
    /\ renders[r].pc = "frames"
    /\ LET d == renders[r].temp_dir
           i == renders[r].frame_idx
       IN  \/ /\ d \in DOMAIN tmpfs
              /\ tmpfs' = [tmpfs EXCEPT ![d].files = @ \cup {FrameNumber(i)}]
              /\ accesses' = accesses \cup {Access(r, d, "write")}
              /\ renders' = [renders EXCEPT
                               ![r].written = Append(@, RenderFrame(r, i)),
                               ![r].frame_idx = i + 1,
                               ![r].pc = ConcLoopHead(r, i + 1)]
           \/ /\ renders' = [renders EXCEPT ![r].exc = "OSError",
                                            ![r].pc = FinallyTarget]
              /\ UNCHANGED <<tmpfs, accesses>>
    /\ UNCHANGED <<request, pc, exc, segments, duration, tempdir, frames,
                   loaded, frame_idx, outfile, muxed, encoder_args, mux_calls,
                   cleanup_calls, late_steps, overlay_calls, result, probe,
                   prepared, dirVars>>

\* _combine_frames_and_audio of render r: the encoder reads the frames of the
\* render's temp_dir, and succeeds or fails.
ConcCombineFramesAndAudio(r) ==
    /\ renders[r].pc = "mux"
    /\ LET d == renders[r].temp_dir
       IN  accesses' = IF d \in DOMAIN tmpfs
                       THEN accesses \cup {Access(r, d, "read")} ELSE accesses
    /\ \/ renders' = [renders EXCEPT ![r].pc = "cleanup"]
       \/ renders' = [renders EXCEPT ![r].exc = EncoderFailure,
                                     ![r].pc = FinallyTarget]
    /\ UNCHANGED <<request, pc, exc, segments, duration, tempdir, frames,
                   loaded, frame_idx, outfile, muxed, encoder_args, mux_calls,
                   cleanup_calls, late_steps, overlay_calls, result, probe,
                   prepared, tmpfs, dirVars>>

\* _cleanup_temp_files of render r: shutil.rmtree(temp_dir), whose failure is
\* swallowed.
ConcCleanupTempFiles(r) ==
    /\ renders[r].pc = "cleanup"
    /\ renders' = [renders EXCEPT ![r].pc = "done"]
    /\ LET d == renders[r].temp_dir
       IN  \/ /\ d \in DOMAIN tmpfs
              /\ accesses' = accesses \cup {Access(r, d, "delete")}
              /\ tmpfs' = [x \in DOMAIN tmpfs \ {d} |-> tmpfs[x]]
           \/ UNCHANGED <<tmpfs, accesses>>
    /\ UNCHANGED <<request, pc, exc, segments, duration, tempdir, frames,
                   loaded, frame_idx, outfile, muxed, encoder_args, mux_calls,
                   cleanup_calls, late_steps, overlay_calls, result, probe,
                   prepared, dirVars>>

NextConc ==
    \E r \in Renders :
        \/ ConcMakeTempDir(r)
        \/ ConcGenerateFrame(r)
        \/ ConcCombineFramesAndAudio(r)
        \/ ConcCleanupTempFiles(r)

SpecConc == InitConc /\ [][NextConc]_vars

\* ---------------------------------------------------------- output directory
\* The .mp4 files of the output directory of one VideoGenerationAPI, as the
\* set of the numbers NNN of the files video_NNN.mp4 it holds; create_video
\* is called without output_filename, and earlier videos are deleted by the
\* user of the directory.
VideoNumbers == 1..MaxVideos

InitDir ==
    /\ output_dir = {}
    /\ overwritten = FALSE
    /\ probe = NoProbe
    /\ request = NoRequest
    /\ outfile = "absent"
    /\ pc = "idle"
    /\ RenderInit
    /\ ConcIdle

\* f"video_{len(list(self.output_dir.glob('*.mp4'))) + 1:03d}.mp4"
AutoName(dir) == Cardinality(dir) + 1

\* create_video without output_filename whose render completes: the encoder
\* runs with overwrite_output=True, so a file of that name is replaced.
CreateVideoAutoNamed ==
    /\ AutoName(output_dir) \in VideoNumbers
    /\ output_dir' = output_dir \cup {AutoName(output_dir)}
    /\ overwritten' = (overwritten \/ AutoName(output_dir) \in output_dir)
    /\ result' = [status |-> "success", video_path |-> AutoName(output_dir)]
    /\ UNCHANGED <<request, pc, exc, segments, duration, tempdir, frames,
                   loaded, frame_idx, outfile, muxed, encoder_args, mux_calls,
                   cleanup_calls, late_steps, overlay_calls, probe, prepared,
                   concVars>>

\* create_video without output_filename whose render fails before the
\* encoder writes: the error dictionary is returned, the directory is as it
\* was.
CreateVideoFailed ==
    /\ AutoName(output_dir) \in VideoNumbers
    /\ result' = [status |-> "error", error |-> "Exception",
                  video_path |-> None]
    /\ UNCHANGED <<request, pc, exc, segments, duration, tempdir, frames,
                   loaded, frame_idx, outfile, muxed, encoder_args, mux_calls,
                   cleanup_calls, late_steps, overlay_calls, probe, prepared,
                   concVars, dirVars>>

\* An earlier video is deleted from the output directory.
DeleteVideo ==
    /\ \E n \in output_dir : output_dir' = output_dir \ {n}
    /\ UNCHANGED <<request, pc, exc, segments, duration, tempdir, frames,
                   loaded, frame_idx, outfile, muxed, encoder_args, mux_calls,
                   cleanup_calls, late_steps, overlay_calls, result, probe,
                   prepared, concVars, overwritten>>

NextDir ==
    \/ CreateVideoAutoNamed
    \/ CreateVideoFailed
    \/ DeleteVideo

SpecDir == InitDir /\ [][NextDir]_vars

\* ------------------------------------------------------------------- claims
RenderFailed == result.status \in {"error", "raised"}

InitialOutfile == IF request.out_exists THEN "old" ELSE "absent"

\* C1: on every exit path of create_video_with_timed_text the cleanup of the
\* temporary frame directory is invoked exactly once: never before the
\* directory exists, never followed by a load, frame or encode step, and
\* once the call has returned or raised with a directory created, exactly
\* once.
C1_CleanupExactlyOnce ==
    /\ cleanup_calls <= 1
    /\ late_steps = 0
    /\ cleanup_calls = 1 => tempdir # "none"
    /\ pc \in {"mkdtemp", "load", "frames", "mux", "cleanup"} => cleanup_calls = 0
    /\ (pc \in {"return", "done"} /\ tempdir # "none") => cleanup_calls = 1

\* C1 witness: a render whose frame loop failed has returned to its caller
\* after one cleanup.
C1_Witness ==
    /\ pc = "done"
    /\ exc = "ZeroDivisionError"
    /\ frame_idx > 0
    /\ cleanup_calls = 1

\* The violations C2 lists, stated on the request.
CountViolation == Len(request.images) # 3

MissingImage == \E i \in 1..Len(request.images) : request.images[i] = "missing"

MissingAudio == ~request.audio

CaptionViolation ==
    \/ request.timing_data = <<>>
    \/ \E i \in 1..Len(request.timing_data) :
          \/ request.timing_data[i].keys # AllKeys
          \/ request.timing_data[i].start >= request.timing_data[i].end

\* C2: create_video rejects every request with an image count other than 3,
\* a missing image or audio file, an empty caption list, a caption lacking a
\* key or a caption with start >= end, by an exception raised before any
\* rendering work: no render call, no temp directory, no frame, no encoder
\* run, the output path untouched; the exception is a ValueError for the
\* count and caption violations.
C2_RejectedBeforeRendering ==
    (/\ request.entry = "api"
     /\ pc # "start"
     /\ CountViolation \/ MissingImage \/ MissingAudio \/ CaptionViolation)
    => /\ pc = "done"
       /\ result = [status |-> "raised"]
       /\ exc \in {"ValueError", "FileNotFoundError"}
       /\ CountViolation => exc = "ValueError"
       /\ (~MissingImage /\ ~MissingAudio) => exc = "ValueError"
       /\ tempdir = "none"
       /\ frames = NoFrames
       /\ loaded = 0
       /\ overlay_calls = 0
       /\ mux_calls = 0
       /\ outfile = InitialOutfile

\* C2 witness: an otherwise valid request with an empty caption list has been
\* rejected.
C2_Witness ==
    /\ request.entry = "api"
    /\ pc = "done"
    /\ request.timing_data = <<>>
    /\ ~CountViolation /\ ~MissingImage /\ ~MissingAudio
    /\ exc = "ValueError"

\* C3: a caption with start = end never reaches the renderer: whenever
\* _add_text_overlay has been called, every caption handed to the render has
\* start < end, and the progress division never divides by zero.
C3_ZeroLengthNeverRendered ==
    /\ overlay_calls > 0 =>
          \A i \in 1..Len(segments) : segments[i].start < segments[i].end
    /\ exc # "ZeroDivisionError"

\* C4: a failed render never leaves a file at the output path: when the
\* render has failed, the output path holds what it held before.
C4_FailedRenderLeavesNoFile ==
    (pc = "done" /\ RenderFailed) => outfile = InitialOutfile

\* C5: for any duration > 0, 3 images and any time t >= 0,
\* _get_current_images returns a segment index in [0, 2] and a blend factor
\* in [0, 1], also when the window duration / 3 is shorter than the
\* transition.
C5_IndexAndBlendInRange ==
    (probe.fn = "_get_current_images" /\ probe.out # Pending)
    => /\ probe.out.segment_idx \in 0..2
       /\ probe.out.blend >= 0
       /\ probe.out.blend <= BlendDen
       /\ probe.out.overlay \in {-1, 1, 2}

\* C5 witness: a crossfade in a window shorter than the transition.
C5_Witness ==
    /\ probe.fn = "_get_current_images"
    /\ probe.out # Pending
    /\ probe.D < BlendDen
    /\ probe.out.overlay = 2
    /\ probe.out.blend > 0

\* Are the frame files of dir the frames 1..n, each written once, frame k
\* composed for the instant (k - 1) / fps?
InSequence(dir, n) ==
    /\ DOMAIN dir = 1..n
    /\ \A k \in 1..n :
          /\ dir[k].writes = 1
          /\ dir[k].time * fps = (k - 1) * TicksPerSecond
    /\ \A k \in 1..(n - 1) : dir[k].time < dir[k + 1].time

\* C6: the frame written under sequence number n is the frame composed for
\* the instant (n - 1) / fps, the numbers 1..totalFrames are each written
\* exactly once without gap, in increasing time order, and the encoder runs
\* only once all of them are written.
C6_FramesInOrderBeforeMux ==
    /\ frames # NoFrames => InSequence(frames, frame_idx)
    /\ mux_calls <= 1
    /\ pc = "mux" => InSequence(frames, TotalFrames(duration))
    /\ mux_calls = 1 => InSequence(muxed, TotalFrames(duration))

\* C6 witness: the encoder has read a sequence of more than two frames.
C6_Witness ==
    /\ mux_calls = 1
    /\ Cardinality(DOMAIN muxed) > 2
    /\ outfile = "video"

\* C7: a render of duration D produces exactly floor(D * fps) frames, frame
\* index i composed for the instant i / fps; D = 9.0 gives 270 frames.
C7_FrameCountIsFloor ==
    /\ pc = "mux" =>
          LET n == Cardinality(DOMAIN frames)
          IN  /\ n * TicksPerSecond <= duration * fps
              /\ duration * fps < (n + 1) * TicksPerSecond
              /\ {frames[k].frame_idx : k \in DOMAIN frames} = 0..(n - 1)
              /\ \A k \in DOMAIN frames :
                    frames[k].time * fps = frames[k].frame_idx * TicksPerSecond
    /\ (pc = "mux" /\ duration = 9 * TicksPerSecond) =>
          Cardinality(DOMAIN frames) = 270

\* C7 witness: the 9 s render has written its 270 frames.
C7_Witness ==
    /\ pc = "mux"
    /\ duration = 9 * TicksPerSecond
    /\ Cardinality(DOMAIN frames) = 270

\* The captions of the probe that cover its instant.
Matching == {i \in 1..Len(probe.segs) :
                probe.segs[i].start <= probe.t /\ probe.t <= probe.segs[i].end}

FirstMatching == CHOOSE i \in Matching : \A j \in Matching : i <= j

\* C8: the caption drawn at time t is the first caption in list order with
\* start <= t <= end, one caption at most; when no caption matches the frame
\* is returned without text.  (A first match of zero length is selected too,
\* and its progress division raises instead of drawing.)
C8_FirstMatchingCaptionDrawn ==
    (probe.fn = "_add_text_overlay" /\ probe.out # Pending)
    => /\ Matching = {} => probe.out = [kind |-> "frame", caption |-> 0, alpha |-> 0]
       /\ Matching # {} =>
             /\ probe.out.caption = FirstMatching
             /\ probe.out.kind \in {"text", "ZeroDivisionError"}
             /\ probe.out.kind = "text" <=>
                   probe.segs[FirstMatching].start < probe.segs[FirstMatching].end

\* C8 witness: two captions cover the instant and the first one is drawn.
C8_Witness ==
    /\ probe.fn = "_add_text_overlay"
    /\ probe.out # Pending
    /\ Cardinality(Matching) = 2
    /\ probe.out.kind = "text"
    /\ probe.out.caption = 1

\* The probe drew a caption [s, e], s < e, at an instant t in it.
Drew == probe.fn = "_add_text_overlay" /\ probe.out # Pending /\ probe.out.kind = "text"

DrawnStart == probe.segs[probe.out.caption].start

DrawnEnd == probe.segs[probe.out.caption].end

TwoSecondCaption == <<ProbeCaption(0, 2 * TicksPerSecond)>>

\* C9 as claimed: the opacity alpha / 255 is exactly p / 0.1 when p < 0.1,
\* (1 - p) / 0.1 when p > 0.9 and 1 otherwise.
C9_OpacityIsEnvelope ==
    Drew =>
        LET s == DrawnStart
            e == DrawnEnd
            t == probe.t
            a == probe.out.alpha
        IN  /\ 10 * (t - s) < (e - s) => a * (e - s) = 10 * AlphaMax * (t - s)
            /\ 10 * (t - s) > 9 * (e - s) => a * (e - s) = 10 * AlphaMax * (e - t)
            /\ (10 * (t - s) >= (e - s) /\ 10 * (t - s) <= 9 * (e - s)) => a = AlphaMax

\* C9 amended: p lies in [0, 1] and the opacity is the envelope truncated to
\* a whole number of 255ths: alpha = floor(255 * p / 0.1) when p < 0.1,
\* floor(255 * (1 - p) / 0.1) when p > 0.9 and 255 otherwise, always within
\* 0..255; caption [0, 2] gives alpha 255 at t = 1.0 and alpha 63 at t = 0.05.
C9_OpacityIsTruncatedEnvelope ==
    Drew =>
        LET s == DrawnStart
            e == DrawnEnd
            t == probe.t
            a == probe.out.alpha
        IN  /\ 0 <= t - s /\ t - s <= e - s
            /\ a \in 0..AlphaMax
            /\ 10 * (t - s) < (e - s) =>
                  /\ a * (e - s) <= 10 * AlphaMax * (t - s)
                  /\ 10 * AlphaMax * (t - s) < (a + 1) * (e - s)
            /\ 10 * (t - s) > 9 * (e - s) =>
                  /\ a * (e - s) <= 10 * AlphaMax * (e - t)
                  /\ 10 * AlphaMax * (e - t) < (a + 1) * (e - s)
            /\ (10 * (t - s) >= (e - s) /\ 10 * (t - s) <= 9 * (e - s)) => a = AlphaMax
            /\ (probe.segs = TwoSecondCaption /\ t = TicksPerSecond) => a = AlphaMax
            /\ (probe.segs = TwoSecondCaption /\ 20 * t = TicksPerSecond) => a = 63

\* C9 witness: caption [0, 2] drawn at t = 0.05 during its fade in.
C9_Witness ==
    /\ Drew
    /\ probe.segs = TwoSecondCaption
    /\ 20 * probe.t = TicksPerSecond
    /\ probe.out.alpha = 63

\* The instant after the probe's, when the drawn caption still covers it.
NextInstant == probe.t + 1

Abs(x) == IF x < 0 THEN 0 - x ELSE x

\* C10 as claimed: the opacities of two consecutive instants of a caption
\* differ by no more than the fade slope (255 / 0.1 per unit of progress)
\* times the step.
C10_StepWithinSlope ==
    (Drew /\ NextInstant <= DrawnEnd) =>
        Abs(FadeAlpha(DrawnStart, DrawnEnd, NextInstant) - probe.out.alpha)
            * (DrawnEnd - DrawnStart) <= 10 * AlphaMax

\* C10 amended: the fade-in branch at p = 0.1 and the fade-out branch at
\* p = 0.9 both give the full opacity 255 used in between, and the opacities
\* of two consecutive instants differ by less than the fade slope times the
\* step plus one level of the integer truncation.
C10_NoJumpAtBoundaries ==
    Drew =>
        LET s == DrawnStart
            e == DrawnEnd
            t == probe.t
        IN  /\ 10 * (t - s) = (e - s) =>
                  FadeIn(s, e, t) = AlphaMax /\ probe.out.alpha = AlphaMax
            /\ 10 * (t - s) = 9 * (e - s) =>
                  FadeOut(s, e, t) = AlphaMax /\ probe.out.alpha = AlphaMax
            /\ NextInstant <= e =>
                  Abs(FadeAlpha(s, e, NextInstant) - probe.out.alpha) * (e - s)
                      < (10 * AlphaMax) + (e - s)

\* C10 witness: an instant just before the 10% boundary whose successor is at
\* full opacity.
C10_Witness ==
    /\ Drew
    /\ NextInstant <= DrawnEnd
    /\ 10 * (probe.t - DrawnStart) < DrawnEnd - DrawnStart
    /\ 10 * (NextInstant - DrawnStart) >= DrawnEnd - DrawnStart
    /\ probe.out.alpha < AlphaMax
    /\ FadeAlpha(DrawnStart, DrawnEnd, NextInstant) = AlphaMax

\* The window index of time t: the k with k * window <= t < (k + 1) * window,
\* window = duration / 3.
WindowOf(t, D) == CHOOSE k \in 0..(3 * t) : k * D <= 3 * t /\ 3 * t < (k + 1) * D

\* C11: with window = duration / 3 the primary image at time t is image
\* floor(t / window) clamped to index 2; the next image is the crossfade
\* target exactly when the segment is not the final one and the time within
\* the segment is at least window - 0.5, with blend factor
\* (timeInSegment - (window - 0.5)) / 0.5; otherwise the blend factor is 0
\* and there is no secondary image.  With duration 9 s and t = 2.6 s the first
\* image is blended into the second with factor 0.2.  The final image never
\* blends.
C11_WindowAndCrossfade ==
    (probe.fn = "_get_current_images" /\ probe.out # Pending)
    => LET k == WindowOf(probe.t, probe.D)
           primary == IF k > 2 THEN 2 ELSE k
           inSegment3 == (3 * probe.t) - (k * probe.D)
           crossfade == primary # 2 /\ inSegment3 >= probe.D - BlendDen
       IN  /\ probe.out.segment_idx = primary
           /\ crossfade => /\ probe.out.overlay = primary + 1
                           /\ probe.out.blend = inSegment3 - (probe.D - BlendDen)
           /\ ~crossfade => /\ probe.out.overlay = -1
                            /\ probe.out.blend = 0
           /\ probe.out.segment_idx = 2 => probe.out.overlay = -1
           /\ (probe.D = ScenarioDuration /\ 10 * probe.t = 26 * TicksPerSecond)
              => /\ probe.out.segment_idx = 0
                 /\ probe.out.overlay = 1
                 /\ 10 * probe.out.blend = 2 * BlendDen

\* C11 witness: the first instant of a crossfade, where the time within the
\* segment is exactly window - 0.5 and the blend factor is 0.
C11_Witness ==
    /\ probe.fn = "_get_current_images"
    /\ probe.out # Pending
    /\ probe.D = ScenarioDuration
    /\ 3 * probe.t = probe.D - BlendDen
    /\ probe.out.overlay = 1
    /\ probe.out.blend = 0

\* The largest caption end of the request.
MaxCaptionEnd ==
    CHOOSE e \in {request.timing_data[i].end : i \in DOMAIN request.timing_data} :
        \A i \in DOMAIN request.timing_data : request.timing_data[i].end <= e

\* C12: when create_video is called without a duration, the render duration
\* is the audio asset's own duration, and the maximum caption end only when
\* the audio's duration cannot be obtained.
C12_DefaultDurationFromAudio ==
    (request.entry = "api" /\ ~request.has_duration /\ pc = "call")
    => duration = IF request.audio_duration # 0 THEN request.audio_duration
                  ELSE MaxCaptionEnd

\* int(a / b) for a >= 0, b > 0: the k with k * b <= a < (k + 1) * b.
Floor(a, b) == CHOOSE k \in 0..a : k * b <= a /\ a < (k + 1) * b

\* The configured sizes: initial = max(int(height * 0.05), 20),
\* minimum = max(int(initial * 0.4), 12).
InitialSize == IF Floor(5 * height, 100) > 20 THEN Floor(5 * height, 100) ELSE 20

MinimumSize == IF Floor(4 * InitialSize, 10) > 12 THEN Floor(4 * InitialSize, 10) ELSE 12

FontSearched == probe.fn = "_calculate_font_and_wrap_text" /\ probe.out # Pending

\* Does the probe's text, wrapped at size s, satisfy
\* wrappedLineCount * (s + 10) <= height * 0.4 ?
Fits(s) ==
    10 * Len(WrapText(probe.text, probe.font, s, max_width)) * (s + 10)
        <= 4 * height

\* C13: the font-size search terminates for every caption text and returns a
\* size >= the configured minimum and <= the initial size; when no size
\* satisfies the height constraint it returns exactly the minimum.
C13_FontSizeWithinConfiguredRange ==
    FontSearched
    => /\ probe.out.font_size >= MinimumSize
       /\ probe.out.font_size <= InitialSize
       /\ (\A s \in MinimumSize..InitialSize : ~Fits(s))
          => probe.out.font_size = MinimumSize

\* C13 witness: a text that overflows at every size, returned at the minimum.
C13_Witness ==
    /\ FontSearched
    /\ \A s \in MinimumSize..InitialSize : ~Fits(s)
    /\ probe.out.font_size = MinimumSize

\* C14: the search tries the sizes from the initial size downward in steps of
\* 1 and returns the first, that is the largest, size for which
\* wrappedLineCount * (fontSize + 10) <= height * 0.4, with the text wrapped
\* at that size; no larger size that fits is skipped.
C14_LargestFittingSize ==
    (FontSearched /\ \E s \in MinimumSize..InitialSize : Fits(s))
    => /\ Fits(probe.out.font_size)
       /\ \A s \in (probe.out.font_size + 1)..InitialSize : ~Fits(s)
       /\ probe.out.wrapped_text
            = WrapText(probe.text, probe.font, probe.out.font_size, max_width)

\* C14 witness: a text that does not fit at the initial size and is returned
\* at a smaller size above the minimum, on more than one line.
C14_Witness ==
    /\ FontSearched
    /\ probe.out.font_size < InitialSize
    /\ probe.out.font_size > MinimumSize
    /\ probe.out.font_size % 2 = 1
    /\ Fits(probe.out.font_size)
    /\ Len(probe.out.wrapped_text) > 1

\* Number of frame files the encoder read.
FramesRead == Cardinality(DOMAIN muxed)

\* C15: rendering with duration D produces a frame sequence whose length
\* floor(D * fps) / fps differs from D by less than one frame interval
\* 1 / fps, and the encoder is told to trim the output to exactly D seconds,
\* whatever the audio length.
C15_FrameLengthAndTrim ==
    mux_calls > 0
    => /\ Abs((duration * fps) - (FramesRead * TicksPerSecond)) < TicksPerSecond
       /\ encoder_args.t = duration
       /\ request.has_duration => encoder_args.t = request.duration

\* C15 witness: the encoder ran on a render whose duration is not a whole
\* number of frames and whose audio is much longer.
C15_Witness ==
    /\ mux_calls > 0
    /\ FramesRead > 0
    /\ duration * fps # FramesRead * TicksPerSecond
    /\ request.audio_duration > duration

\* The encoder ran and did not produce the video.
EncoderFailed == mux_calls > 0 /\ outfile # "video"

\* C16: when the encoder fails, the failure is surfaced to the caller:
\* _combine_frames_and_audio re-raises the encoder error,
\* create_video_with_timed_text propagates it after the cleanup, and
\* VideoGenerationAPI.create_video reports it as status "error" carrying the
\* error message; an encoder failure is never reported as success.
C16_EncoderFailureSurfaced ==
    EncoderFailed
    => /\ pc \in {"cleanup", "return"} => exc = "ffmpeg.Error"
       /\ pc = "return" => cleanup_calls = 1
       /\ pc = "done"
          => /\ result.status # "success"
             /\ cleanup_calls = 1
             /\ request.entry = "api"
                => /\ result.status = "error"
                   /\ result.error = "ffmpeg.Error"
             /\ request.entry # "api"
                => result.status = "raised" /\ exc = "ffmpeg.Error"

\* C16 witness: create_video has returned the error result of a failed
\* encoder run.
C16_Witness ==
    /\ EncoderFailed
    /\ pc = "done"
    /\ request.entry = "api"
    /\ result.status = "error"
    /\ frames = NoFrames
    /\ FramesRead > 0

\* The cleanup ran and could not remove the temporary directory.
CleanupFailed == cleanup_calls > 0 /\ tempdir = "exists"

\* What the caller was given as the error of the render, "none" if none.
Reported ==
    IF pc = "done" /\ result.status = "error" THEN result.error ELSE exc

\* The error of the image that stopped the image loop.
ImageError ==
    IF request.images[loaded + 1] = "missing"
    THEN "FileNotFoundError" ELSE "UnidentifiedImageError"

\* C17: a failure of the temporary-directory cleanup never changes the
\* outcome of the render: if the render succeeded the caller still gets the
\* output path, and if the render failed the caller still gets the original
\* render error, not the cleanup error.
C17_CleanupFailureKeepsOutcome ==
    (CleanupFailed /\ pc \in {"return", "done"})
    => /\ (mux_calls > 0 /\ outfile = "video")
          => /\ Reported = "none"
             /\ pc = "done"
                => /\ result.status = "success"
                   /\ result.video_path = "output_path"
       /\ (mux_calls > 0 /\ outfile # "video") => Reported = "ffmpeg.Error"
       /\ (mux_calls = 0 /\ loaded < Len(request.images))
          => Reported = ImageError
       /\ (mux_calls = 0 /\ loaded = Len(request.images))
          => Reported \in {"ZeroDivisionError", "OSError"}
       /\ (pc = "done" /\ Reported # "none")
          => result.status \in {"error", "raised"}

\* C17 witness: the cleanup failed after a frame could not be saved, and the
\* caller got the error of the save.
C17_Witness ==
    /\ CleanupFailed
    /\ pc = "done"
    /\ frames # NoFrames
    /\ mux_calls = 0
    /\ loaded = Len(request.images)
    /\ Reported = "OSError"

\* The render failed before the encoder: an image could not be loaded or
\* prepared, or a frame could not be composed or saved.
FailedBeforeEncoder ==
    /\ tempdir # "none"
    /\ Reported \in {"FileNotFoundError", "UnidentifiedImageError",
                     "ZeroDivisionError", "OSError"}

\* C18: if loading or preparing any of the images, or composing or saving
\* any frame, fails, the render aborts immediately: the encoder is never
\* invoked for that render and no video is produced; and all images are
\* loaded and prepared before the first frame is written.
C18_FailureAbortsBeforeEncoder ==
    /\ FailedBeforeEncoder
       => /\ pc \in {"cleanup", "return", "done"}
          /\ mux_calls = 0
          /\ muxed = NoFrames
          /\ encoder_args = NoArgs
          /\ outfile = InitialOutfile
          /\ late_steps = 0
    /\ (frames # NoFrames \/ overlay_calls > 0 \/ pc = "frames")
       => loaded = Len(request.images)

\* C18 witness: the second image could not be decoded; the render is over
\* without a frame and without an encoder run.
C18_Witness ==
    /\ FailedBeforeEncoder
    /\ pc = "done"
    /\ loaded = 1
    /\ Reported = "UnidentifiedImageError"
    /\ overlay_calls = 0
    /\ mux_calls = 0

Cropped == probe.fn = "_resize_and_crop_image" /\ probe.out # Pending

\* Is the source relatively wider than the target?
RelativelyWider == probe.img_width * height > probe.img_height * width

\* C19: for every source image of positive width and height,
\* _resize_and_crop_image crops a non-empty rectangle that lies inside the
\* source, is centered on the cropped axis (horizontal when the image is
\* relatively wider than the target, vertical otherwise), leaves the other
\* axis uncropped, and returns an image of exactly width x height.
C19_CropInsideCenteredExact ==
    Cropped
    => LET b == probe.box
       IN  /\ b.right > b.left
           /\ b.lower > b.upper
           /\ 0 <= b.left /\ b.right <= probe.img_width
           /\ 0 <= b.upper /\ b.lower <= probe.img_height
           /\ RelativelyWider
              => /\ b.upper = 0 /\ b.lower = probe.img_height
                 /\ Abs(b.left - (probe.img_width - b.right)) <= 1
           /\ ~RelativelyWider
              => /\ b.left = 0 /\ b.right = probe.img_width
                 /\ Abs(b.upper - (probe.img_height - b.lower)) <= 1
           /\ probe.out = [kind |-> "image", w |-> width, h |-> height]

\* The request came through main or load_timing_data and its captions are
\* made.
Grouped == request.entry \in {"main", "direct"} /\ pc # "start"

\* Index of the first and of the last word of caption k (k = 1, 2, ...;
\* words counted from 1).
FirstWord(k) == (4 * (k - 1)) + 1

LastWord(k) == IF 4 * k < Len(request.words) THEN 4 * k ELSE Len(request.words)

SortedWords ==
    \A i \in 1..(Len(request.words) - 1) :
        /\ request.words[i].start <= request.words[i + 1].start
        /\ request.words[i].end <= request.words[i + 1].start

\* C20: grouping n transcribed words into captions yields ceil(n / 4)
\* captions, the k-th covering the next 4 words in order with start = its
\* first word's start, end = its last word's end and text = its words joined
\* by single spaces; every word appears in exactly one caption; when the
\* words are sorted by start and non-overlapping, so are the captions.  When
\* there are no word timings, the sentence-level segments are used unchanged.
C20_WordsGroupedByFour ==
    Grouped
    => LET w == request.words
           n == Len(w)
           m == Len(segments)
       IN  /\ n > 0
              => /\ 4 * (m - 1) < n /\ n <= 4 * m
                 /\ \A k \in 1..m :
                      /\ segments[k].start = w[FirstWord(k)].start
                      /\ segments[k].end = w[LastWord(k)].end
                      /\ segments[k].text
                           = [j \in 1..(LastWord(k) - FirstWord(k) + 1) |->
                                w[FirstWord(k) + j - 1].word]
                 /\ \A i \in 1..n :
                      Cardinality(
                        { <<k, j>> \in (1..m) \X (1..4) :
                            /\ j \in DOMAIN segments[k].text
                            /\ segments[k].text[j] = w[i].word }) = 1
                 /\ SortedWords
                    => \A k \in 1..(m - 1) :
                         /\ segments[k].start <= segments[k + 1].start
                         /\ segments[k].end <= segments[k + 1].start
           /\ n = 0 => segments = request.timing_data

\* C20 witness: nine words grouped into three captions, the last of one word.
C20_Witness ==
    /\ Grouped
    /\ Len(request.words) = (2 * 4) + 1
    /\ Len(segments) = 3
    /\ Len(segments[3].text) = 1
    /\ SortedWords

\* Render r holds a temporary directory: mkdtemp has returned and the
\* cleanup has not run yet.
Live(r) == renders # <<>> /\ renders[r].pc \in {"frames", "mux", "cleanup"}

\* C21: for any two render invocations running concurrently, their temporary
\* frame directories are distinct, so no render writes a frame into, reads a
\* frame from, or deletes the directory of another render.
C21_TempDirsDistinct ==
    /\ \A r \in Renders : \A q \in Renders :
          (r # q /\ Live(r) /\ Live(q))
          => renders[r].temp_dir # renders[q].temp_dir
    /\ \A a \in accesses : a.by = a.owner

\* C21 witness: both renders hold a directory and each has written a frame,
\* read its frames or deleted its directory.
C21_Witness ==
    /\ Live(1) /\ Live(2)
    /\ \E a \in accesses : a.by = 1 /\ a.op = "write"
    /\ \E a \in accesses : a.by = 2 /\ a.op = "read"
    /\ renders[1].temp_dir # renders[2].temp_dir

\* C22: drawing a caption never modifies a caller-visible frame: the text is
\* drawn on a per-frame copy (or blend result), so after any number of frames
\* each of the 3 prepared images is as it was right after preparation, and
\* text drawn for frame i appears in a later frame j only if a caption is
\* selected again at frame j.
C22_CaptionDrawnOnCopy ==
    /\ Len(prepared) = loaded
    /\ \A k \in DOMAIN prepared : prepared[k] = {}
    /\ \A n \in DOMAIN frames :
          frames[n].ink = IF frames[n].text = "text"
                          THEN {frames[n].caption} ELSE {}

\* C22 witness: a frame without caption was written right after a frame with
\* a caption on the same base image.
C22_Witness ==
    /\ frame_idx >= 2
    /\ frame_idx \in DOMAIN frames
    /\ frames[frame_idx].text = "frame"
    /\ frames[frame_idx].ink = {}
    /\ frames[frame_idx - 1].text = "text"
    /\ frames[frame_idx - 1].base = frames[frame_idx].base
    /\ frames[frame_idx - 1].overlay = -1

\* C23: every render call that the pipeline entry point makes with
\* quality_preset in {low, medium, high} is accepted by
\* create_video_from_components (and the preset is resolved once, at render
\* start, to one (width, height, fps) for the whole render).
C23_PresetAccepted ==
    (request.entry = "main" /\ pc \notin {"start", "call"})
    => exc # "TypeError"

\* C24: every video has exactly 3 image assets: for every narration script,
\* segment_script returns exactly 3 segments, so the image stage generates
\* exactly image_0, image_1 and image_2, the three paths the pipeline hands
\* to the render.
C24_ExactlyThreeImages ==
    (probe.fn = "segment_script" /\ probe.out # Pending)
    => /\ Len(probe.out.segments) = 3
       /\ probe.out.images = {0, 1, 2}
       /\ probe.out.images = image_paths

\* C26: the key points produced by extract_key_points are the text LLM's
\* response, and that text is what generate_script substitutes into its
\* prompt: the value handed from the document stage to the script stage is
\* never absent.
C26_KeyPointsHandedOn ==
    (probe.fn = "extract_key_points" /\ probe.out # Pending)
    => /\ probe.out.key_points = probe.response
       /\ probe.out.script.kind = "prompt"
       /\ probe.out.script.summary = probe.response

\* Render r has produced its whole frame sequence.
Produced(r) ==
    /\ renders[r].pc \in {"mux", "cleanup", "done"}
    /\ renders[r].exc # "OSError"

Sampled == probe.fn = "create_sample_timing_data" /\ probe.out # Pending

ValidApiRequest ==
    /\ request.entry = "api"
    /\ ~(CountViolation \/ MissingImage \/ MissingAudio \/ CaptionViolation)

\* C28: for a request that passes validation, create_video never raises: any
\* exception during frame generation or encoding is returned as
\* {status: "error", error: message, video_path: None}, and a completed
\* render is returned as status "success" with video_path equal to the output
\* path, the duration used, image_count = 3 and text_segments = the number of
\* captions.
C28_CreateVideoNeverRaises ==
    (ValidApiRequest /\ pc = "done")
    => /\ exc = "none"
       /\ result.status \in {"success", "error"}
       /\ (mux_calls > 0 /\ outfile = "video")
          => result = [status |-> "success", video_path |-> "output_path",
                       duration |-> duration, image_count |-> 3,
                       text_segments |-> Len(request.timing_data)]
       /\ result.status = "success"
          => /\ mux_calls > 0 /\ outfile = "video"
             /\ request.has_duration => result.duration = request.duration
       /\ ~(mux_calls > 0 /\ outfile = "video")
          => /\ result.status = "error"
             /\ result.video_path = "None"
             /\ result.error \in {"OSError", "FileNotFoundError",
                                  "UnidentifiedImageError",
                                  "ZeroDivisionError", "ffmpeg.Error"}

\* C28 witness: create_video has returned the error dictionary of a render
\* that could not decode an image.
C28_Witness ==
    /\ ValidApiRequest
    /\ pc = "done"
    /\ result.status = "error"
    /\ result.error = "UnidentifiedImageError"
    /\ result.video_path = "None"

\* C29: the auto-generated name video_NNN.mp4 of a create_video call without
\* output_filename never names a file that already exists in the output
\* directory, after any sequence of create_video calls and deletions of
\* earlier videos; an auto-named render never overwrites an earlier video.
C29_AutoNameNeverExists ==
    /\ ~overwritten
    /\ AutoName(output_dir) \notin output_dir

Wrapped == probe.fn = "_wrap_text" /\ probe.out # Pending

\* The words of a list of lines, in order.
RECURSIVE WordsOf(_)
WordsOf(lines) ==
    IF lines = <<>> THEN <<>> ELSE Head(lines) \o WordsOf(Tail(lines))

\* Width of a line of the wrapped probe, as _wrap_text measures it.
ProbeWidth(line) == TextWidth(line, probe.font, probe.font_size)

\* C30: for any caption text and max width, _wrap_text returns lines whose
\* words, concatenated in order, are exactly the whitespace-split words of
\* the text; no returned line is empty; every line holding more than one word
\* measures <= max_width; and a single word wider than max_width is placed
\* alone on its own line.
C30_WrapKeepsWords ==
    Wrapped
    => LET lines == probe.out.lines
       IN  /\ WordsOf(lines) = probe.text
           /\ \A k \in 1..Len(lines) :
                 /\ lines[k] # <<>>
                 /\ Len(lines[k]) > 1 => ProbeWidth(lines[k]) <= probe.max_width
                 /\ \A j \in 1..Len(lines[k]) :
                       ProbeWidth(<<lines[k][j]>>) > probe.max_width
                       => Len(lines[k]) = 1

\* C30 witness: a text wrapped into at least three lines, one of them with
\* two words that fit and one holding alone a word wider than the maximum.
C30_Witness ==
    /\ Wrapped
    /\ Len(probe.out.lines) >= 3
    /\ \E k \in 1..Len(probe.out.lines) :
          /\ Len(probe.out.lines[k]) > 1
          /\ ProbeWidth(probe.out.lines[k]) <= probe.max_width
    /\ \E k \in 1..Len(probe.out.lines) :
          /\ Len(probe.out.lines[k]) = 1
          /\ ProbeWidth(probe.out.lines[k]) > probe.max_width

====
